---- MODULE Spec2Model ----
(***************************************************************************)
(* Model of the URL resolution core of gutenberg2zim                       *)
(* (src/src/gutenberg2zim/urls.py, src/gutenberg/utils.py).                *)
(*                                                                         *)
(* Python strings are sequences of one-character strings, so that `in`,    *)
(* find, slicing, strip and str/int conversions are computed as the code   *)
(* computes them.  A pathlib.Path is a record [kind |-> "Path", v |-> the  *)
(* sequence of its parts]; a plain str handed to Path() is                 *)
(* [kind |-> "str", v |-> its characters].                                 *)
(***************************************************************************)
EXTENDS Integers, Sequences, FiniteSets, TLC

VARIABLES
    u_base,              \* UrlBuilder.base of the builder object
    u_id,                \* UrlBuilder.b_id (Unset until with_id is called)
    u_url,               \* what the last build() call returned
    mirror,              \* what `rsync --list-only` prints for the mirror
    file,                \* content of TMP_FOLDER_PATH/file_on_aleph_pglaf_org
    books,               \* the `books` argument of the running setup_urls
    pc,                  \* position of setup_urls
    line_no,             \* next line of the second readlines() loop
    start_rel_path_idx,  \* local variable of setup_urls
    Urls,                \* rows of the Url table, in insertion order
    hashseed,            \* the process's string hash seed (PYTHONHASHSEED)
    rpc,                 \* position of the get_urls call
    rbook,               \* book.id of the get_urls call
    rrows,               \* BookFormat rows of that book
    rout                 \* what the last get_urls call returned or raised

vars == <<u_base, u_id, u_url, mirror, file, books, pc, line_no,
          start_rel_path_idx, Urls, hashseed, rpc, rbook, rrows, rout>>

builder_vars == <<u_base, u_id, u_url>>

setup_vars == <<mirror, file, books, pc, line_no, start_rel_path_idx, Urls>>

resolver_vars == <<hashseed, rpc, rbook, rrows, rout>>

(***************************************************************************)
(* Bounds of the model.                                                    *)
(***************************************************************************)
\* Longest mirror listing, in lines.
MaxLines == 2

\* Book ids 1..MaxBuilderId are handed to the UrlBuilder object.
MaxBuilderId == 30

(***************************************************************************)
(* Python str, int and list operations.                                    *)
(***************************************************************************)
\* A builder attribute that was never assigned.
Unset == <<>>

\* A value that is no Path and no str: nothing was returned yet (kind "None"),
\* or the call raised (kind = the exception's name).
NoValue(kind) == [kind |-> kind, v |-> <<>>]

DigitChars == <<"0", "1", "2", "3", "4", "5", "6", "7", "8", "9">>

\* str(n) for an int n >= 0.
RECURSIVE Str(_)
Str(n) ==
    IF n < 10 THEN <<DigitChars[n + 1]>>
    ELSE Str(n \div 10) \o <<DigitChars[(n % 10) + 1]>>

DigitVal(c) == CHOOSE d \in 0..9 : DigitChars[d + 1] = c

\* int(s) for a string of decimal digits.
RECURSIVE Int_(_)
Int_(s) ==
    IF Len(s) = 1 THEN DigitVal(s[1])
    ELSE 10 * Int_(SubSeq(s, 1, Len(s) - 1)) + DigitVal(s[Len(s)])

\* f"{i:0=2d}" for 0 <= i < 100.
TwoDigits(i) == IF i < 10 THEN <<"0">> \o Str(i) ELSE Str(i)

\* s.find(t): 0-based index of the first occurrence, -1 when there is none.
Find(s, t) ==
    LET hits == {i \in 1..(Len(s) - Len(t) + 1) : SubSeq(s, i, i + Len(t) - 1) = t}
    IN  IF hits = {} THEN -1
        ELSE (CHOOSE i \in hits : \A j \in hits : i <= j) - 1

\* t in s, for strings.
Contains(s, t) == Find(s, t) >= 0

\* s.startswith(t)
StartsWith(s, t) == Len(s) >= Len(t) /\ SubSeq(s, 1, Len(t)) = t

Whitespace == {" ", "\n", "\t", "\r"}

\* s.strip()
RECURSIVE Strip(_)
Strip(s) ==
    IF s = <<>> THEN s
    ELSE IF s[1] \in Whitespace THEN Strip(Tail(s))
    ELSE IF s[Len(s)] \in Whitespace THEN Strip(SubSeq(s, 1, Len(s) - 1))
    ELSE s

\* s[k:] for a 0-based k >= 0.
SliceFrom(s, k) == SubSeq(s, k + 1, Len(s))

\* "".join(parts)
RECURSIVE Concat(_)
Concat(parts) ==
    IF parts = <<>> THEN <<>> ELSE Head(parts) \o Concat(Tail(parts))

\* "/".join(parts)
RECURSIVE JoinSlash(_)
JoinSlash(parts) ==
    IF parts = <<>> THEN <<>>
    ELSE IF Len(parts) = 1 THEN parts[1]
    ELSE parts[1] \o <<"/">> \o JoinSlash(Tail(parts))

\* list(s): one element per character.
ListOfChars(s) == [i \in 1..Len(s) |-> <<s[i]>>]

\* s[:-1]
DropLast(s) == SubSeq(s, 1, Len(s) - 1)

(***************************************************************************)
(* pathlib.Path                                                            *)
(***************************************************************************)
\* The parts pathlib keeps of a relative path string: split at "/", empty
\* and "." components dropped.
RECURSIVE PathParts(_, _)
PathParts(s, cur) ==
    LET keep == IF cur = <<>> \/ cur = <<".">> THEN <<>> ELSE <<cur>>
    IN  IF s = <<>> THEN keep
        ELSE IF s[1] = "/" THEN keep \o PathParts(Tail(s), <<>>)
        ELSE PathParts(Tail(s), cur \o <<s[1]>>)

PartsOf(x) ==
    IF x.kind = "Path" THEN x.v
    ELSE IF x.v # <<>> /\ x.v[1] = "/" THEN <<<<"/">>>> \o PathParts(x.v, <<>>)
    ELSE PathParts(x.v, <<>>)

IsAbsolute(x) == PartsOf(x) # <<>> /\ PartsOf(x)[1] = <<"/">>

\* Path(*args) and the / operator: the parts of the arguments in order; an
\* absolute argument discards what precedes it.
RECURSIVE JoinParts(_, _)
JoinParts(args, acc) ==
    IF args = <<>> THEN acc
    ELSE IF IsAbsolute(Head(args)) THEN JoinParts(Tail(args), PartsOf(Head(args)))
    ELSE JoinParts(Tail(args), acc \o PartsOf(Head(args)))

Path(args) == [kind |-> "Path", v |-> JoinParts(args, <<>>)]

S(chars) == [kind |-> "str", v |-> chars]

\* A list of strings as the arguments of Path(*list).
StrArgs(list) == [i \in 1..Len(list) |-> S(list[i])]

\* bool(x): a Path object is always true, a str is true when not empty.
Truthy(x) == IF x.kind = "str" THEN x.v # <<>> ELSE TRUE

(***************************************************************************)
(* class UrlBuilder                                                        *)
(***************************************************************************)
BASE_ONE ==
    <<"h","t","t","p",":","/","/","a","l","e","p","h",".","p","g","l","a","f",
      ".","o","r","g","/">>

BASE_TWO == BASE_ONE \o <<"c","a","c","h","e","/","e","p","u","b","/">>

BASE_THREE == BASE_ONE \o <<"e","t","e","x","t">>

Bases == {BASE_ONE, BASE_TWO, BASE_THREE}

\* The id above which build() shards on the digits of the id.
ShardThreshold == 10

\* build() with the test `int(self.b_id) > 10` written `>= 10`.
build_ge(base, b_id) ==
    IF base = BASE_ONE THEN
        IF Int_(b_id) >= ShardThreshold
        THEN Path(<<S(BASE_ONE),
                    Path(<<Path(StrArgs(ListOfChars(DropLast(b_id)))),
                           S(b_id)>>)>>)
        ELSE Path(<<S(BASE_ONE), Path(<<S(<<"0">>), S(b_id)>>)>>)
    ELSE IF base = BASE_TWO THEN Path(<<S(BASE_TWO), S(b_id)>>)
    ELSE S(base)

\* UrlBuilder.build() of a builder whose base is `base` and whose b_id is the
\* string `b_id`.
build(base, b_id) ==
    IF base = BASE_ONE THEN
        IF Int_(b_id) > ShardThreshold
        THEN Path(<<S(BASE_ONE),
                    Path(<<Path(StrArgs(ListOfChars(DropLast(b_id)))),
                           S(b_id)>>)>>)
        ELSE Path(<<S(BASE_ONE), Path(<<S(<<"0">>), S(b_id)>>)>>)
    ELSE IF base = BASE_TWO THEN Path(<<S(BASE_TWO), S(b_id)>>)
    ELSE S(base)

\* The parts of a candidate below the mirror's base URL, BASE_ONE.
MirrorParts(u) ==
    LET root == PartsOf(S(BASE_ONE))
    IN  SubSeq(PartsOf(u), Len(root) + 1, Len(PartsOf(u)))

\* The mirror-relative path of a candidate, as the listing writes it.
MirrorRelative(u) == JoinSlash(MirrorParts(u))

BuilderIds == (1..MaxBuilderId) \cup {120, 10023, 39765}

InitBuilder ==
    /\ u_base = BASE_ONE
    /\ u_id = Unset
    /\ u_url = NoValue("None")

with_base(base) ==
    /\ u_base' = base
    /\ UNCHANGED <<u_id, u_url>>
    /\ UNCHANGED <<setup_vars, resolver_vars>>

with_id(b_id) ==
    /\ u_id' = b_id
    /\ UNCHANGED <<u_base, u_url>>
    /\ UNCHANGED <<setup_vars, resolver_vars>>

Build ==
    /\ u_url' = IF u_id = Unset THEN NoValue("AttributeError") ELSE build(u_base, u_id)
    /\ UNCHANGED <<u_base, u_id>>
    /\ UNCHANGED <<setup_vars, resolver_vars>>

(***************************************************************************)
(* The rsync listing of the mirror                                         *)
(***************************************************************************)
\* One line of `rsync -a --list-only`, as readlines() returns it: the
\* permissions (of which `perm` is the first character), the size, the
\* modification date and time, the mirror-relative path, a newline.
RsyncLine(perm, month, path) ==
    <<perm>> \o <<"r","w","-","r","-","-","r","-","-"," ","1"," ","2","0","2","4","/">> \o month \o <<"/","1","5"," ","0","0",":","0","0",":","0","0"," ">> \o path \o <<"\n">>

\* The ids the listed paths belong to.
ListedSmallId == ShardThreshold

ListedId == 10023

MarkerLine == RsyncLine("-", <<"1","0">>, <<"G","U","T","I","N","D","E","X",".","A","L","L">>)

OldDirLine == RsyncLine("d", <<"0","3">>, <<"o","l","d">>)

CacheEpubLine ==
    RsyncLine("-", <<"0","3">>,
        JoinSlash(<<<<"c","a","c","h","e">>, <<"e","p","u","b">>, Str(ListedId),
                    <<"p","g">> \o Str(ListedId) \o <<".","e","p","u","b">>>>))

ShardedEpubLine ==
    RsyncLine("-", <<"0","3">>,
        JoinSlash(<<<<"1">>, <<"0">>, <<"0">>, <<"2">>, Str(ListedId),
                    <<"p","g">> \o Str(ListedId) \o <<".","e","p","u","b">>>>))

RootOldLine ==
    RsyncLine("-", <<"0","3">>,
        JoinSlash(<<<<"o","l","d">>, Str(ListedId), Str(ListedId) \o <<"-","h",".","h","t","m">>>>))

NestedOldLine ==
    RsyncLine("-", <<"0","3">>,
        JoinSlash(<<<<"1">>, <<"0">>, <<"0">>, <<"2">>, Str(ListedId), <<"o","l","d">>,
                    Str(ListedId) \o <<"-","h",".","h","t","m">>>>))

EtextLine ==
    RsyncLine("-", <<"0","3">>,
        JoinSlash(<<<<"e","t","e","x","t">>, <<"9","0">>, Str(ListedId) \o <<"-","h",".","h","t","m">>>>))

SmallIdLine ==
    RsyncLine("-", <<"0","3">>,
        JoinSlash(<<<<"0">>, Str(ListedSmallId), Str(ListedSmallId) \o <<"-","h",".","h","t","m">>>>))

\* The lines a listing is made of, in the order rsync lists them (sorted by
\* path).
LineCatalogue ==
    <<SmallIdLine, NestedOldLine, ShardedEpubLine, MarkerLine, CacheEpubLine,
      EtextLine, OldDirLine, RootOldLine>>

RECURSIVE LinesAt(_)
LinesAt(positions) ==
    IF positions = {} THEN <<>>
    ELSE LET first == CHOOSE p \in positions : \A q \in positions : p <= q
         IN  <<LineCatalogue[first]>> \o LinesAt(positions \ {first})

\* Every listing of at most MaxLines of these lines.
Listings ==
    {LinesAt(positions) :
        positions \in {P \in SUBSET (1..Len(LineCatalogue)) : Cardinality(P) <= MaxLines}}

\* The `books` selections setup_urls is called with.
Selections == {<<>>, <<ListedId>>, <<ListedSmallId>>}

NoFile == [exists |-> FALSE, lines |-> <<>>]

(***************************************************************************)
(* setup_urls                                                              *)
(***************************************************************************)
GUTINDEX == <<"G","U","T","I","N","D","E","X">>

\* The first loop over readlines(): start_rel_path_idx after it, <<>> while
\* the name is unbound.
RECURSIVE find_start(_, _)
find_start(lines, idx) ==
    IF lines = <<>> THEN idx
    ELSE LET k == Find(Head(lines), GUTINDEX)
         IN  IF k >= 0 THEN <<k>> ELSE find_start(Tail(lines), <<k>>)

\* any(f"/{book}/" in line for book in books)
any_book(line, bks) ==
    \E i \in 1..Len(bks) : Contains(line, <<"/">> \o Str(bks[i]) \o <<"/">>)

\* The three `continue` tests of the second loop.
skipped(line, bks) ==
    \/ StartsWith(line, <<"d">>)
    \/ Contains(line, <<"/","o","l","d","/">>)
    \/ (bks # <<>> /\ ~any_book(line, bks))

\* line[start_rel_path_idx:].strip()
relative_path(line, start) == Strip(SliceFrom(line, start))

\* The rows the second loop creates from `lines`, in order.
RECURSIVE created(_, _, _)
created(lines, bks, start) ==
    IF lines = <<>> THEN <<>>
    ELSE (IF skipped(Head(lines), bks) THEN <<>>
          ELSE <<relative_path(Head(lines), start)>>)
         \o created(Tail(lines), bks, start)

\* Url.get_or_none(url=key) is not None
get_or_none(key, table) == \E i \in 1..Len(table) : table[i] = key

InitSetup ==
    /\ mirror \in Listings
    /\ file = NoFile
    /\ books = <<>>
    /\ pc = "idle"
    /\ line_no = 0
    /\ start_rel_path_idx = <<>>
    /\ Urls = <<>>

Returned == {"idle", "done", "ValueError", "UnboundLocalError"}

\* setup_urls(force, books), up to the first open(): rsync writes the
\* listing unless the file exists and force is false.
SetupUrls(force, bks) ==
    /\ pc \in Returned
    /\ file' = IF file.exists /\ ~force THEN file
               ELSE [exists |-> TRUE, lines |-> mirror]
    /\ books' = bks
    /\ pc' = "find"
    /\ line_no' = 0
    /\ start_rel_path_idx' = <<>>
    /\ UNCHANGED <<mirror, Urls>>
    /\ UNCHANGED <<builder_vars, resolver_vars>>

\* The search for the GUTINDEX line and the test that follows it.
FindStart ==
    /\ pc = "find"
    /\ start_rel_path_idx' = find_start(file.lines, <<>>)
    /\ pc' = IF start_rel_path_idx' = <<>> THEN "UnboundLocalError"
             ELSE IF start_rel_path_idx'[1] = -1 THEN "ValueError"
             ELSE "delete"
    /\ UNCHANGED <<mirror, file, books, line_no, Urls>>
    /\ UNCHANGED <<builder_vars, resolver_vars>>

\* Url.delete().execute()
DeleteUrls ==
    /\ pc = "delete"
    /\ Urls' = <<>>
    /\ line_no' = 1
    /\ pc' = "append"
    /\ UNCHANGED <<mirror, file, books, start_rel_path_idx>>
    /\ UNCHANGED <<builder_vars, resolver_vars>>

\* One iteration of the second loop.
AppendUrl ==
    /\ pc = "append"
    /\ line_no <= Len(file.lines)
    /\ Urls' = Urls \o created(<<file.lines[line_no]>>, books, start_rel_path_idx[1])
    /\ line_no' = line_no + 1
    /\ UNCHANGED <<mirror, file, books, pc, start_rel_path_idx>>
    /\ UNCHANGED <<builder_vars, resolver_vars>>

\* The loop is over: setup_urls logs the counts and returns.
SetupReturn ==
    /\ pc = "append"
    /\ line_no > Len(file.lines)
    /\ pc' = "done"
    /\ UNCHANGED <<mirror, file, books, line_no, start_rel_path_idx, Urls>>
    /\ UNCHANGED <<builder_vars, resolver_vars>>

(***************************************************************************)
(* The catalogue (Book, BookFormat) and the constants of utils.py          *)
(***************************************************************************)
FORMAT_MATRIX ==
    [epub |-> "application/epub+zip", pdf |-> "application/pdf", html |-> "text/html"]

FORMAT_MATRIX_values == {FORMAT_MATRIX[k] : k \in DOMAIN FORMAT_MATRIX}

BadPdfBook == 39765

BAD_BOOKS_FORMATS == [b \in {BadPdfBook, 40194} |-> <<"pdf">>]

\* BookFormat rows: the file name pattern and the mime string, the latter as
\* its ";"-separated fields.
Row(pattern, mime) == [pattern |-> pattern, mime |-> mime]

EpubRows ==
    <<Row(<<"p","g","{id}">> \o <<".","e","p","u","b">>, <<"application/epub+zip">>),
      Row(<<"p","g","{id}">> \o <<"-","i","m","a","g","e","s",".","e","p","u","b">>, <<"application/epub+zip">>)>>

PdfRows ==
    <<Row(<<"{id}">> \o <<"-","p","d","f",".","p","d","f">>, <<"application/pdf">>),
      Row(<<"{id}">> \o <<"-","i","m","a","g","e","s",".","p","d","f">>, <<"application/pdf">>),
      Row(<<"{id}">> \o <<".","t","x","t">>, <<"text/plain", " charset=us-ascii">>)>>

HtmRows == <<Row(<<"{id}">> \o <<"-","h",".","h","t","m">>, <<"text/html", " charset=utf-8">>)>>

ZipRows == <<Row(<<"{id}">> \o <<"-","h",".","z","i","p">>, <<"text/html">>)>>

\* What BookFormat.select().where(BookFormat.book == book) may hold.
Catalogue == {<<>>, EpubRows \o PdfRows, HtmRows, ZipRows}

BookIds == {ListedSmallId, ListedId, BadPdfBook}

\* x.pattern.format(id=book.id)
format(pattern, id) ==
    Concat([i \in 1..Len(pattern) |->
               IF pattern[i] = "{id}" THEN Str(id) ELSE <<pattern[i]>>])

\* f(x): x.mime.split(";")[0].strip()
f(x) == x.mime[1]

(***************************************************************************)
(* Candidate generators                                                    *)
(***************************************************************************)
\* lst[k] for a Python index k, negative ones counted from the end.
Item(lst, k) == IF k < 0 THEN lst[Len(lst) + k + 1] ELSE lst[k + 1]

\* x in lst, for a list.
InList(x, lst) == \E i \in 1..Len(lst) : lst[i] = x

\* One of the orders in which a set can be iterated.
RECURSIVE IterationOrder(_)
IterationOrder(set) ==
    IF set = {} THEN <<>>
    ELSE LET x == CHOOSE y \in set : TRUE
         IN  <<x>> \o IterationOrder(set \ {x})

Reverse(seq) == [i \in 1..Len(seq) |-> seq[Len(seq) + 1 - i]]

HashSeeds == {0, 1}

\* list(set(urls)): the elements without duplicates, in an order that the
\* hashes of the elements decide, hence the process's hash seed.  Two of the
\* orders stand for all of them.
list_set(urls, seed) ==
    LET order == IterationOrder({urls[i] : i \in 1..Len(urls)})
    IN  IF seed = 0 THEN order ELSE Reverse(order)

\* `substring in s` where s is one of the dicts {"name": ..., "id": ...} that
\* build_html passes: the test is on the keys of the dict.
in_dict(substring, s) == substring \in DOMAIN s

index_of_substring(lst, substrings) ==
    LET hits == {i \in 1..Len(lst) :
                    \E j \in 1..Len(substrings) : in_dict(substrings[j], lst[i])}
    IN  IF hits = {} THEN -1
        ELSE (CHOOSE i \in hits : \A j \in hits : i <= j) - 1

\* build_epub with the builder left on its default base, BASE_ONE.
build_epub_sharded(files) ==
    LET b_id == Str(files[1].id)
        u    == build(BASE_ONE, b_id)
        name == <<"p","g">> \o b_id
    IN  IF ~Truthy(u) THEN <<>>
        ELSE <<Path(<<Path(<<u>>), S(name \o <<".","e","p","u","b">>)>>),
               Path(<<Path(<<u>>), S(name \o <<"-","i","m","a","g","e","s",".","e","p","u","b">>)>>),
               Path(<<Path(<<u>>), S(name \o <<"-","n","o","i","m","a","g","e","s",".","e","p","u","b">>)>>)>>

build_epub(files) ==
    LET b_id == Str(files[1].id)
        u    == build(BASE_TWO, b_id)
        name == <<"p","g">> \o b_id
    IN  IF ~Truthy(u) THEN <<>>
        ELSE <<Path(<<Path(<<u>>), S(name \o <<".","e","p","u","b">>)>>),
               Path(<<Path(<<u>>), S(name \o <<"-","i","m","a","g","e","s",".","e","p","u","b">>)>>),
               Path(<<Path(<<u>>), S(name \o <<"-","n","o","i","m","a","g","e","s",".","e","p","u","b">>)>>)>>

build_pdf(files, seed) ==
    LET b_id   == Str(files[1].id)
        u      == build(BASE_TWO, b_id)
        u1     == build(BASE_ONE, b_id)
        kept   == SelectSeq(files, LAMBDA i : ~Contains(i.name, <<"i","m","a","g","e","s">>))
        direct == [k \in 1..Len(kept) |-> Path(<<Path(<<u>>), S(kept[k].name)>>)]
        url_dash1  == Path(<<Path(<<u1>>), S(b_id \o <<"-","p","d","f",".","p","d","f">>)>>)
        url_dash   == Path(<<Path(<<u>>), S(b_id \o <<"-","p","d","f",".","p","d","f">>)>>)
        url_normal == Path(<<Path(<<u>>), S(b_id \o <<".","p","d","f">>)>>)
        url_pg     == Path(<<Path(<<u>>), S(<<"p","g">> \o b_id \o <<".","p","d","f">>)>>)
    IN  IF ~Truthy(u) THEN <<>>
        ELSE list_set(direct \o <<url_dash, url_normal, url_pg, url_dash1>>, seed)

\* The two-digit labels of the etext directories: 90..99, then 00..05.
etext_names ==
    [k \in 1..16 |-> TwoDigits(IF k <= 10 THEN 89 + k ELSE k - 11)]

build_html(files, seed) ==
    LET b_id       == Str(files[1].id)
        file_names == [k \in 1..Len(files) |-> files[k].name]
        u          == build(BASE_ONE, b_id)
        direct     ==
            IF ~InList(<<"-","h",".","h","t","m","l">>, file_names) /\ InList(<<"-","h",".","z","i","p">>, file_names)
            THEN [k \in 1..Len(files) |-> Path(<<Path(<<u>>), S(files[k].name)>>)]
            ELSE <<>>
        url_zip    == Path(<<Path(<<u>>), S(b_id \o <<"-","h",".","z","i","p">>)>>)
        url_html   == Path(<<Path(<<u>>), S(b_id \o <<"-","h",".","h","t","m","l">>)>>)
        url_htm    == Path(<<Path(<<u>>), S(b_id \o <<"-","h",".","h","t","m">>)>>)
        html_utf8  == Path(<<Path(<<build(BASE_TWO, b_id)>>),
                             S(<<"p","g">> \o b_id \o <<".","h","t","m","l",".","u","t","f","8">>)>>)
        file_index == index_of_substring(files, <<"html", "htm">>)
        file_name  == Item(files, file_index).name
        etext_urls ==
            [k \in 1..Len(etext_names) |->
                Path(<<build(BASE_THREE, b_id), S(etext_names[k]), S(file_name)>>)]
    IN  IF ~Truthy(u) THEN <<>>
        ELSE list_set(direct \o <<url_zip, url_htm, url_html, html_utf8>>
                             \o etext_urls, seed)

(***************************************************************************)
(* get_urls, sort_by_mime_type, build_urls                                 *)
(***************************************************************************)
\* The dict {mime: [{"name": ..., "id": ...}, ...]} that sort_by_mime_type
\* makes of the rows get_urls keeps; a mime without rows is no key of it.
sort_by_mime_type(rows, id) ==
    LET kept   == SelectSeq(rows, LAMBDA x : f(x) \in FORMAT_MATRIX_values)
        of(m)  == SelectSeq(kept, LAMBDA x : f(x) = m)
        keys   == {f(kept[k]) : k \in 1..Len(kept)}
    IN  [m \in keys |->
            [k \in 1..Len(of(m)) |->
                [name |-> format(of(m)[k].pattern, id), id |-> id]]]

\* The path component urllib.parse.urlparse finds in a str: what follows the
\* scheme and, after "//", the network location (a query or a fragment, which
\* no candidate has, is not split off).
url_path(s) ==
    LET colon == Find(s, <<":">>)
        rest  == IF colon >= 0 THEN SliceFrom(s, colon + 1) ELSE s
        tail  == SliceFrom(rest, 2)
    IN  IF StartsWith(rest, <<"/", "/">>)
        THEN (IF Find(tail, <<"/">>) >= 0
              THEN SliceFrom(tail, Find(tail, <<"/">>)) ELSE <<>>)
        ELSE rest

\* urlparse.urlparse(u): a str is parsed; any other argument is taken for
\* bytes and decoded, and a Path has no decode(), so the call raises
\* AttributeError.  Every candidate of the generators is a Path.
urlparse(u) ==
    IF u.kind = "str" THEN [status |-> "ok", path |-> url_path(u.v)]
    ELSE [status |-> "AttributeError", path |-> <<>>]

\* build_urls with every candidate kept (the "for development" fallback).
filtre_all(possible_url, table) == [status |-> "ok", urls |-> possible_url]

\* [u for u in possible_url if Url.get_or_none(url=urlparse(u).path[1:])]
filtre(possible_url, table) ==
    IF \E k \in 1..Len(possible_url) : urlparse(possible_url[k]).status # "ok"
    THEN [status |-> "AttributeError", urls |-> <<>>]
    ELSE [status |-> "ok",
          urls   |-> SelectSeq(possible_url,
                         LAMBDA u : get_or_none(SliceFrom(urlparse(u).path, 1), table))]

\* mapping[i](files[i])
possible_urls(i, files, seed) ==
    IF i = "application/epub+zip" THEN build_epub(files)
    ELSE IF i = "application/pdf" THEN build_pdf(files, seed)
    ELSE build_html(files, seed)

mapping == <<"application/epub+zip", "application/pdf", "text/html">>

\* The loop of build_urls over `keys`: the dict it returns (status "ok"), or
\* the exception that leaves it.
RECURSIVE build_urls_from(_, _, _, _)
build_urls_from(keys, files, table, seed) ==
    IF keys = <<>> THEN [status |-> "ok", files |-> files]
    ELSE IF Head(keys) \notin DOMAIN files
         THEN build_urls_from(Tail(keys), files, table, seed)
    ELSE LET i   == Head(keys)
             got == filtre(possible_urls(i, files[i], seed), table)
         IN  IF got.status # "ok" THEN [status |-> got.status, files |-> <<>>]
             ELSE build_urls_from(Tail(keys), [files EXCEPT ![i] = got.urls],
                                  table, seed)

build_urls(files, table, seed) == build_urls_from(mapping, files, table, seed)

get_urls(id, rows, table, seed) ==
    build_urls(sort_by_mime_type(rows, id), table, seed)

NotCalled == [status |-> "none", files |-> <<>>]

InitResolver ==
    /\ hashseed \in HashSeeds
    /\ rpc = "idle"
    /\ rbook = 0
    /\ rrows = <<>>
    /\ rout = NotCalled

\* get_urls(book) is called and reads the book's BookFormat rows.
GetUrls(id, rows) ==
    /\ rpc = "idle"
    /\ rpc' = "build_urls"
    /\ rbook' = id
    /\ rrows' = rows
    /\ rout' = NotCalled
    /\ UNCHANGED hashseed
    /\ UNCHANGED <<builder_vars, setup_vars>>

\* build_urls generates the candidates, looks them up in the Url table and
\* returns or raises.
BuildUrls ==
    /\ rpc = "build_urls"
    /\ rout' = get_urls(rbook, rrows, Urls, hashseed)
    /\ rpc' = "idle"
    /\ UNCHANGED <<hashseed, rbook, rrows>>
    /\ UNCHANGED <<builder_vars, setup_vars>>

(***************************************************************************)
(* Specifications                                                          *)
(***************************************************************************)
Init == InitBuilder /\ InitSetup /\ InitResolver

Next ==
    \/ \E force \in BOOLEAN, bks \in Selections : SetupUrls(force, bks)
    \/ FindStart
    \/ DeleteUrls
    \/ AppendUrl
    \/ SetupReturn
    \/ \E id \in BookIds, rows \in Catalogue : GetUrls(id, rows)
    \/ BuildUrls

Spec == Init /\ [][Next]_vars

\* The UrlBuilder object alone, with the listing never fetched.
InitIdle ==
    /\ InitBuilder
    /\ InitSetup
    /\ InitResolver
    /\ mirror = <<>>
    /\ hashseed = 0

NextBuilder ==
    \/ \E base \in Bases : with_base(base)
    \/ \E n \in BuilderIds : with_id(Str(n))
    \/ Build

SpecBuilder == InitIdle /\ [][NextBuilder]_vars

(***************************************************************************)
(* Claims                                                                  *)
(***************************************************************************)
\* The dict build_urls is handed for the call in rbook, rrows.
called_files == sort_by_mime_type(rrows, rbook)

\* A get_urls call has come back (returned or raised).
Completed == rpc = "idle" /\ rout.status # "none"

\* The step in which build_urls returns or raises.
Completes == rpc = "build_urls" /\ rpc' = "idle"

\* The numeric-sharded directory of a book id, written digit by digit.
ShardedDir(n) ==
    IF n > 10
    THEN [i \in 1..Len(Str(n)) |->
             IF i < Len(Str(n))
             THEN <<DigitChars[((n \div (10 ^ (Len(Str(n)) - i))) % 10) + 1]>>
             ELSE Str(n)]
    ELSE <<<<"0">>, Str(n)>>

C2_ExclusionInvariant ==
    (Completed /\ rbook \in DOMAIN BAD_BOOKS_FORMATS)
        => \A j \in 1..Len(BAD_BOOKS_FORMATS[rbook]) :
              LET mime == FORMAT_MATRIX[BAD_BOOKS_FORMATS[rbook][j]]
              IN  mime \in DOMAIN called_files
                     => /\ rout.status = "ok"
                        /\ rout.files[mime] = <<>>

\* C3: two calls for the same book with the same Url table (in any two
\* processes, hence under any two hash seeds) give the same outcome, and the
\* pdf and html lists, which go through a set, come in the same order.
C3_Deterministic ==
    rpc = "build_urls"
        => \A s1, s2 \in HashSeeds :
              /\ get_urls(rbook, rrows, Urls, s1) = get_urls(rbook, rrows, Urls, s2)
              /\ \A m \in DOMAIN called_files :
                    possible_urls(m, called_files[m], s1)
                        = possible_urls(m, called_files[m], s2)

\* The path <sharded path of id>/pg<id>.epub.
ShardedEpubPath(n) == JoinSlash(ShardedDir(n) \o <<<<"p","g">> \o Str(n) \o <<".","e","p","u","b">>>>)

\* C4 as stated: when the table holds <sharded path of id>/pg<id>.epub and the
\* book declares application/epub+zip, the call returns that URL in the
\* book's epub list.
C4_ShardedEpubReturned ==
    [][(/\ Completes
        /\ "application/epub+zip" \in DOMAIN called_files
        /\ get_or_none(ShardedEpubPath(rbook), Urls))
          => /\ rout'.status = "ok"
             /\ \E k \in 1..Len(rout'.files["application/epub+zip"]) :
                   MirrorRelative(rout'.files["application/epub+zip"][k])
                       = ShardedEpubPath(rbook)]_vars

\* C4 as amended: the epub candidates of a book that declares
\* application/epub+zip are pg<id>.epub, pg<id>-images.epub and
\* pg<id>-noimages.epub in the unsharded cache directory cache/epub/<id>/;
\* none is <sharded path of id>/pg<id>.epub, and a call never returns that
\* path.
C4_EpubUnderCache ==
    (rbook # 0 /\ "application/epub+zip" \in DOMAIN called_files)
        => LET cands == build_epub(called_files["application/epub+zip"])
               dir   == <<"c","a","c","h","e","/","e","p","u","b","/">> \o Str(rbook) \o <<"/","p","g">> \o Str(rbook)
           IN  /\ [k \in 1..Len(cands) |-> MirrorRelative(cands[k])]
                     = <<dir \o <<".","e","p","u","b">>, dir \o <<"-","i","m","a","g","e","s",".","e","p","u","b">>,
                         dir \o <<"-","n","o","i","m","a","g","e","s",".","e","p","u","b">>>>
               /\ \A m \in DOMAIN rout.files :
                     \A k \in 1..Len(rout.files[m]) :
                        MirrorRelative(rout.files[m][k]) # ShardedEpubPath(rbook)

\* A call for book 10023, which declares epub, has come back while the table
\* held 1/0/0/2/10023/pg10023.epub.
C4_Witness ==
    /\ Completed
    /\ pc = "done"
    /\ rbook = ListedId
    /\ "application/epub+zip" \in DOMAIN called_files
    /\ get_or_none(<<"1","/","0","/","0","/","2","/","1","0","0","2","3","/","p","g","1","0","0","2","3",".","e","p","u","b">>, Urls)

\* The relative paths of the directory lines of the listing.
DirectoryPaths ==
    {relative_path(file.lines[k], start_rel_path_idx[1]) :
        k \in {j \in 1..Len(file.lines) : StartsWith(file.lines[j], <<"d">>)}}

\* C5: after setup_urls has returned, no row of the Url table is a directory
\* entry, none lies under an old/ directory, and none begins with old/.
C5_NoOldNoDirectory ==
    pc = "done"
        => \A k \in 1..Len(Urls) :
              /\ Urls[k] \notin DirectoryPaths
              /\ ~Contains(Urls[k], <<"/","o","l","d","/">>)
              /\ ~StartsWith(Urls[k], <<"o","l","d","/">>)

\* C6: setup_urls raises ValueError for every listing none of whose lines
\* contains GUTINDEX, the empty listing included, and leaves the Url table as
\* it was.
C6_IngestError ==
    [][(pc = "find" /\ \A k \in 1..Len(file.lines) : ~Contains(file.lines[k], GUTINDEX))
          => (pc' = "ValueError" /\ Urls' = Urls)]_vars

\* A file name looks like an HTML/HTM file.
LooksHtml(name) == Contains(name, <<"h","t","m","l">>) \/ Contains(name, <<"h","t","m">>)

\* C7: when no html file name of the book looks like an HTML/HTM file, the
\* html generator produces no etext candidate, and the call returns a dict
\* whose html list is empty.
C7_NoHtmlCandidate ==
    (/\ Completed
     /\ "text/html" \in DOMAIN called_files
     /\ \A k \in 1..Len(called_files["text/html"]) :
           ~LooksHtml(called_files["text/html"][k].name))
        => /\ \A s \in HashSeeds :
                 LET cands == build_html(called_files["text/html"], s)
                 IN  \A k \in 1..Len(cands) :
                        ~StartsWith(MirrorRelative(cands[k]), <<"e","t","e","x","t">>)
           /\ rout.status = "ok"
           /\ rout.files["text/html"] = <<>>

\* C9: while a get_urls call is active, a Url table that holds an index
\* changes only by being replaced with the complete index of the new listing;
\* it is never seen emptied or partly filled.
C9_AtomicRefresh ==
    [][(rpc = "build_urls" /\ Urls # <<>> /\ Urls' # Urls)
          => Urls' = created(file.lines, books, start_rel_path_idx[1])]_vars

\* Every candidate of a book, whatever the catalogue declares for it.
AllCandidates(id) ==
    UNION {LET files == sort_by_mime_type(rows, id)
           IN  UNION {{possible_urls(m, files[m], 0)[k] :
                          k \in 1..Len(possible_urls(m, files[m], 0))} :
                      m \in DOMAIN files} :
           rows \in Catalogue}

\* C10: for every book of the selection, a call against the table built with
\* the selection gives what a call against the table built from the same
\* listing without selection gives: the table built with the selection holds
\* every candidate path of the book that the listing has as a file outside
\* old/.
C10_SelectionExact ==
    (pc = "done" /\ books # <<>>)
        => \A i \in 1..Len(books) :
              /\ \A rows \in Catalogue :
                    get_urls(books[i], rows, Urls, hashseed)
                        = get_urls(books[i], rows,
                              created(file.lines, <<>>, start_rel_path_idx[1]), hashseed)
              /\ \A c \in AllCandidates(books[i]) :
                    \A k \in 1..Len(file.lines) :
                       (/\ ~skipped(file.lines[k], <<>>)
                        /\ relative_path(file.lines[k], start_rel_path_idx[1])
                               = MirrorRelative(c))
                          => get_or_none(MirrorRelative(c), Urls)

====
